---------------------------- MODULE Spec2Model ----------------------------
(***************************************************************************)
(* The peephole optimizer of src/peephole_opt.py (_CodePeepholeOptimizer)  *)
(* as a state machine.  One pass of optimize() is: the bypass check, then  *)
(* _optimize walking the blocks of the code in order, optimize_block       *)
(* reading one instruction per step through the cursor self.index and      *)
(* dispatching it to its eval_<NAME> handler.                              *)
(*                                                                         *)
(* Python values are records [t, i, d, items]: an int is i (d = 1), a      *)
(* float is the exact fraction i/d in lowest terms, a tuple or a frozenset *)
(* is the sequence items.  Python lists (a block, co_consts, const_stack)  *)
(* are TLA+ sequences; Python's 0-based and negative indices and its slice *)
(* clamping are kept by the Py* operators.                                 *)
(***************************************************************************)
EXTENDS Integers, Sequences, FiniteSets, TLC

\* ------------------------------------------------------------------ bounds

\* Integers outside -IntCap..IntCap are outside the modelled domain: a step
\* that would compute one is not taken.
IntCap == 1000

\* A block longer than this is outside the modelled domain (a step that would
\* make one is not taken).
MaxBlockLen == 26

\* ---------------------------------------------------------- Python values

IntV(n) == [t |-> "int", i |-> n, d |-> 1, items |-> <<>>]

TupleV(s) == [t |-> "tuple", i |-> 0, d |-> 1, items |-> s]

Abs(n) == IF n < 0 THEN -n ELSE n

Min(a, b) == IF a < b THEN a ELSE b

Max(a, b) == IF a < b THEN b ELSE a

RECURSIVE Gcd(_, _)
Gcd(a, b) == IF b = 0 THEN a ELSE Gcd(b, a % b)

\* The float n/m (m # 0), in lowest terms with a positive denominator.
FloatV(n, m) ==
  LET g == Gcd(Abs(n), Abs(m))
      s == IF m < 0 THEN -1 ELSE 1
  IN  [t |-> "float", i |-> (s * n) \div g, d |-> Abs(m) \div g, items |-> <<>>]

IsNum(v) == v.t \in {"int", "float"}

\* The values len() takes: a list and a set exist only at run time.
IsSized(v) == v.t \in {"tuple", "frozenset", "list", "set"}

\* Python's == on the modelled values.
RECURSIVE PyEq(_, _)
PyEq(a, b) ==
  IF IsNum(a) /\ IsNum(b) THEN a.i * b.d = b.i * a.d
  ELSE IF IsNum(a) \/ IsNum(b) THEN FALSE
  ELSE IF (a.t \in {"set", "frozenset"}) # (b.t \in {"set", "frozenset"}) THEN FALSE
  ELSE IF a.t \in {"tuple", "list"}
       THEN /\ a.t = b.t
            /\ Len(a.items) = Len(b.items)
            /\ \A k \in 1..Len(a.items) : PyEq(a.items[k], b.items[k])
  ELSE /\ \A k \in 1..Len(a.items) : \E j \in 1..Len(b.items) : PyEq(a.items[k], b.items[j])
       /\ \A j \in 1..Len(b.items) : \E k \in 1..Len(a.items) : PyEq(a.items[k], b.items[j])

\* x in container
PyContains(c, x) == \E k \in 1..Len(c.items) : PyEq(c.items[k], x)

\* bool(v)
Truthy(v) == IF IsNum(v) THEN v.i # 0 ELSE Len(v.items) > 0

\* A total order on values, used only to keep a frozenset in one canonical form.
TypeRank(v) ==
  CASE v.t = "int" -> 0 [] v.t = "float" -> 1 [] v.t = "tuple" -> 2 [] v.t = "list" -> 3
    [] OTHER -> 4

RECURSIVE VLess(_, _)
VLess(a, b) ==
  IF IsNum(a) /\ IsNum(b)
  THEN IF a.i * b.d # b.i * a.d THEN a.i * b.d < b.i * a.d ELSE TypeRank(a) < TypeRank(b)
  ELSE IF TypeRank(a) # TypeRank(b) THEN TypeRank(a) < TypeRank(b)
  ELSE LET n == Min(Len(a.items), Len(b.items))
           diff == {k \in 1..n : a.items[k] # b.items[k]}
       IN  IF diff = {} THEN Len(a.items) < Len(b.items)
           ELSE LET k == CHOOSE x \in diff : \A y \in diff : x <= y
                IN  VLess(a.items[k], b.items[k])

\* Insert x in the canonical sequence s unless an equal element is there.
RECURSIVE SetInsert(_, _)
SetInsert(s, x) ==
  IF s = <<>> THEN <<x>>
  ELSE IF PyEq(Head(s), x) THEN s
  ELSE IF VLess(x, Head(s)) /\ ~ PyContains(TupleV(s), x) THEN <<x>> \o s
  ELSE <<Head(s)>> \o SetInsert(Tail(s), x)

RECURSIVE CanonItems(_)
CanonItems(s) == IF s = <<>> THEN <<>> ELSE SetInsert(CanonItems(SubSeq(s, 1, Len(s) - 1)), s[Len(s)])

\* frozenset(items)
FrozensetV(s) == [t |-> "frozenset", i |-> 0, d |-> 1, items |-> CanonItems(s)]

\* --------------------------------------------------- outcomes of host calls

\* The outcome of a Python expression: a value, or the exception it raises.
\* "unmodelled" marks a result outside the modelled domain.
Ok(v) == [exc |-> "none", v |-> v]

Raise(e) == [exc |-> e, v |-> IntV(0)]

InCap(n) == -IntCap <= n /\ n <= IntCap

OkInt(n) == IF InCap(n) THEN Ok(IntV(n)) ELSE Raise("unmodelled")

OkFloat(n, m) ==
  IF InCap(n) /\ InCap(m) THEN LET f == FloatV(n, m) IN Ok(f) ELSE Raise("unmodelled")

\* A tuple longer than this is outside the modelled domain.
MaxItems == 48

OkTuple(s) == IF Len(s) <= MaxItems THEN Ok(TupleV(s)) ELSE Raise("unmodelled")

\* Floor division, as Python's // on ints (m # 0).
FloorDiv(n, m) == IF m > 0 THEN n \div m ELSE (-n) \div (-m)

\* a ** n for n >= 0, or IntCap + 1 once the magnitude passes IntCap.
RECURSIVE PowCapped(_, _)
PowCapped(a, n) ==
  IF n = 0 THEN 1
  ELSE LET r == PowCapped(a, n - 1)
       IN  IF Abs(r) > IntCap \/ Abs(r * a) > IntCap THEN IntCap + 1 ELSE r * a

RECURSIVE BitAnd(_, _)
BitAnd(a, b) ==
  IF a = 0 \/ b = 0 THEN 0
  ELSE IF a = -1 THEN b
  ELSE IF b = -1 THEN a
  ELSE 2 * BitAnd(a \div 2, b \div 2) + (a % 2) * (b % 2)

RECURSIVE BitOr(_, _)
BitOr(a, b) ==
  IF a = 0 THEN b
  ELSE IF b = 0 THEN a
  ELSE IF a = -1 \/ b = -1 THEN -1
  ELSE 2 * BitOr(a \div 2, b \div 2) + Max(a % 2, b % 2)

RECURSIVE BitXor(_, _)
BitXor(a, b) ==
  IF a = 0 THEN b
  ELSE IF b = 0 THEN a
  ELSE IF a = -1 THEN -b - 1
  ELSE IF b = -1 THEN -a - 1
  ELSE 2 * BitXor(a \div 2, b \div 2) + (IF a % 2 = b % 2 THEN 0 ELSE 1)

RECURSIVE Repeat(_, _)
Repeat(s, n) == IF n <= 0 THEN <<>> ELSE s \o Repeat(s, n - 1)

SelectItems(s, Keep(_)) == SelectSeq(s, Keep)

\* ------------------------------------------- the operator module's functions

operator_pos(a) == IF IsNum(a) THEN Ok(a) ELSE Raise("TypeError")

operator_neg(a) == IF IsNum(a) THEN Ok([a EXCEPT !.i = -a.i]) ELSE Raise("TypeError")

operator_invert(a) == IF a.t = "int" THEN OkInt(-a.i - 1) ELSE Raise("TypeError")

operator_add(a, b) ==
  IF a.t = "int" /\ b.t = "int" THEN OkInt(a.i + b.i)
  ELSE IF IsNum(a) /\ IsNum(b) THEN OkFloat(a.i * b.d + b.i * a.d, a.d * b.d)
  ELSE IF a.t = "tuple" /\ b.t = "tuple" THEN OkTuple(a.items \o b.items)
  ELSE Raise("TypeError")

operator_sub(a, b) ==
  IF a.t = "int" /\ b.t = "int" THEN OkInt(a.i - b.i)
  ELSE IF IsNum(a) /\ IsNum(b) THEN OkFloat(a.i * b.d - b.i * a.d, a.d * b.d)
  ELSE IF a.t = "frozenset" /\ b.t = "frozenset"
       THEN LET Keep(x) == ~ PyContains(b, x) IN Ok(FrozensetV(SelectItems(a.items, Keep)))
  ELSE Raise("TypeError")

operator_mul(a, b) ==
  IF a.t = "int" /\ b.t = "int" THEN OkInt(a.i * b.i)
  ELSE IF IsNum(a) /\ IsNum(b) THEN OkFloat(a.i * b.i, a.d * b.d)
  ELSE IF a.t = "tuple" /\ b.t = "int"
       THEN IF Len(a.items) * b.i > MaxItems THEN Raise("unmodelled")
            ELSE Ok(TupleV(Repeat(a.items, b.i)))
  ELSE IF a.t = "int" /\ b.t = "tuple"
       THEN IF Len(b.items) * a.i > MaxItems THEN Raise("unmodelled")
            ELSE Ok(TupleV(Repeat(b.items, a.i)))
  ELSE Raise("TypeError")

operator_truediv(a, b) ==
  IF ~ (IsNum(a) /\ IsNum(b)) THEN Raise("TypeError")
  ELSE IF b.i = 0 THEN Raise("ZeroDivisionError")
  ELSE OkFloat(a.i * b.d, a.d * b.i)

operator_floordiv(a, b) ==
  IF ~ (IsNum(a) /\ IsNum(b)) THEN Raise("TypeError")
  ELSE IF b.i = 0 THEN Raise("ZeroDivisionError")
  ELSE LET q == FloorDiv(a.i * b.d, a.d * b.i)
       IN  IF a.t = "int" /\ b.t = "int" THEN OkInt(q) ELSE OkFloat(q, 1)

operator_mod(a, b) ==
  IF ~ (IsNum(a) /\ IsNum(b)) THEN Raise("TypeError")
  ELSE IF b.i = 0 THEN Raise("ZeroDivisionError")
  ELSE LET q == FloorDiv(a.i * b.d, a.d * b.i)
       IN  IF a.t = "int" /\ b.t = "int" THEN OkInt(a.i - q * b.i)
           ELSE OkFloat(a.i * b.d - q * b.i * a.d, a.d * b.d)

operator_pow(a, b) ==
  IF ~ (IsNum(a) /\ IsNum(b)) THEN Raise("TypeError")
  ELSE IF b.d # 1 THEN Raise("unmodelled")
  ELSE IF b.i < 0 /\ a.i = 0 THEN Raise("ZeroDivisionError")
  ELSE LET n == PowCapped(a.i, Abs(b.i))
           m == PowCapped(a.d, Abs(b.i))
       IN  IF a.t = "int" /\ b.t = "int" /\ b.i >= 0 THEN OkInt(n)
           ELSE IF b.i >= 0 THEN OkFloat(n, m)
           ELSE OkFloat(m, n)

operator_lshift(a, b) ==
  IF ~ (a.t = "int" /\ b.t = "int") THEN Raise("TypeError")
  ELSE IF b.i < 0 THEN Raise("ValueError")
  ELSE IF a.i = 0 THEN OkInt(0)
  ELSE LET p == PowCapped(2, b.i)
       IN  IF p > IntCap THEN Raise("unmodelled") ELSE OkInt(a.i * p)

operator_rshift(a, b) ==
  IF ~ (a.t = "int" /\ b.t = "int") THEN Raise("TypeError")
  ELSE IF b.i < 0 THEN Raise("ValueError")
  ELSE LET p == PowCapped(2, b.i)
       IN  IF p > IntCap THEN OkInt(IF a.i < 0 THEN -1 ELSE 0) ELSE OkInt(a.i \div p)

operator_and_(a, b) ==
  IF a.t = "int" /\ b.t = "int" THEN OkInt(BitAnd(a.i, b.i))
  ELSE IF a.t = "frozenset" /\ b.t = "frozenset"
       THEN LET Keep(x) == PyContains(b, x) IN Ok(FrozensetV(SelectItems(a.items, Keep)))
  ELSE Raise("TypeError")

operator_or_(a, b) ==
  IF a.t = "int" /\ b.t = "int" THEN OkInt(BitOr(a.i, b.i))
  ELSE IF a.t = "frozenset" /\ b.t = "frozenset" THEN Ok(FrozensetV(a.items \o b.items))
  ELSE Raise("TypeError")

operator_xor(a, b) ==
  IF a.t = "int" /\ b.t = "int" THEN OkInt(BitXor(a.i, b.i))
  ELSE IF a.t = "frozenset" /\ b.t = "frozenset"
       THEN LET KeepA(x) == ~ PyContains(b, x)
                KeepB(x) == ~ PyContains(a, x)
            IN  Ok(FrozensetV(SelectItems(a.items, KeepA) \o SelectItems(b.items, KeepB)))
  ELSE Raise("TypeError")

operator_getitem(a, b) ==
  IF ~ (a.t = "tuple" /\ b.t = "int") THEN Raise("TypeError")
  ELSE LET n == Len(a.items)
           k == IF b.i < 0 THEN b.i + n ELSE b.i
       IN  IF k < 0 \/ k >= n THEN Raise("IndexError") ELSE Ok(a.items[k + 1])

UnaryOps == {"UNARY_POSITIVE", "UNARY_NEGATIVE", "UNARY_INVERT"}

BinaryOps ==
  {"BINARY_ADD", "BINARY_SUBTRACT", "BINARY_MULTIPLY", "BINARY_TRUE_DIVIDE",
   "BINARY_FLOOR_DIVIDE", "BINARY_MODULO", "BINARY_POWER", "BINARY_LSHIFT",
   "BINARY_RSHIFT", "BINARY_AND", "BINARY_OR", "BINARY_XOR", "BINARY_SUBSCR"}

\* The operator each eval_UNARY_* handler hands to unaryop.
UnaryOperator(name, a) ==
  CASE name = "UNARY_POSITIVE" -> operator_pos(a)
    [] name = "UNARY_NEGATIVE" -> operator_neg(a)
    [] name = "UNARY_INVERT" -> operator_invert(a)

\* The operator each eval_BINARY_* handler hands to binop.
BinaryOperator(name, a, b) ==
  CASE name = "BINARY_ADD" -> operator_add(a, b)
    [] name = "BINARY_SUBTRACT" -> operator_sub(a, b)
    [] name = "BINARY_MULTIPLY" -> operator_mul(a, b)
    [] name = "BINARY_TRUE_DIVIDE" -> operator_truediv(a, b)
    [] name = "BINARY_FLOOR_DIVIDE" -> operator_floordiv(a, b)
    [] name = "BINARY_MODULO" -> operator_mod(a, b)
    [] name = "BINARY_POWER" -> operator_pow(a, b)
    [] name = "BINARY_LSHIFT" -> operator_lshift(a, b)
    [] name = "BINARY_RSHIFT" -> operator_rshift(a, b)
    [] name = "BINARY_AND" -> operator_and_(a, b)
    [] name = "BINARY_OR" -> operator_or_(a, b)
    [] name = "BINARY_XOR" -> operator_xor(a, b)
    [] name = "BINARY_SUBSCR" -> operator_getitem(a, b)

\* ------------------------------------------------------------ Python lists

\* A slice bound i of a list of length n, clamped as Python clamps it.
PySliceBound(i, n) == IF i < 0 THEN Max(i + n, 0) ELSE Min(i, n)

\* s[a:b] = r
PySliceAssign(s, a, b, r) ==
  LET n == Len(s)
      lo == PySliceBound(a, n)
      hi == Max(PySliceBound(b, n), lo)
  IN  SubSeq(s, 1, lo) \o r \o SubSeq(s, hi + 1, n)

\* del s[a:b]
PySliceDel(s, a, b) == PySliceAssign(s, a, b, <<>>)

\* s[-n:] for n > 0
PyTail(s, n) == SubSeq(s, PySliceBound(-n, Len(s)) + 1, Len(s))

\* Whether s[i] exists (otherwise s[i] raises IndexError).
PyIndexOk(s, i) == -Len(s) <= i /\ i < Len(s)

PyPos(s, i) == (IF i < 0 THEN i + Len(s) ELSE i) + 1

\* s[i]
PyItem(s, i) == s[PyPos(s, i)]

\* s[i] = v
PySetItem(s, i, v) == [s EXCEPT ![PyPos(s, i)] = v]

\* del s[i]
PyDelItem(s, i) == SubSeq(s, 1, PyPos(s, i) - 1) \o SubSeq(s, PyPos(s, i) + 1, Len(s))

\* ----------------------------------------------- instructions, labels, code

\* A label names the instruction at offset off of block blk (blocks counted
\* from 0, as self.code[i] counts them).
Label(b, o) == [blk |-> b, off |-> o]

NoLabel == Label(-1, 0)

\* bytecode.Instr: a name and its argument, an int (arg) or a label (lbl).
Instr(name, arg) == [name |-> name, arg |-> arg, lbl |-> NoLabel]

Jump(name, lbl) == [name |-> name, arg |-> 0, lbl |-> lbl]

\* instr.replace(name, arg) and instr.replace_arg(arg) with an int argument
Instr_replace(instr, name, arg) == Instr(name, arg)

\* instr.replace(name, label)
Instr_replace_label(instr, name, lbl) == Jump(name, lbl)

CondJumps ==
  {"POP_JUMP_IF_FALSE", "POP_JUMP_IF_TRUE", "JUMP_IF_FALSE_OR_POP", "JUMP_IF_TRUE_OR_POP"}

UncondJumps == {"JUMP_FORWARD", "JUMP_ABSOLUTE"}

is_cond_jump(instr) == instr.name \in CondJumps

is_jump(instr) == instr.name \in CondJumps \cup UncondJumps

JUMPS_ON_TRUE == {"POP_JUMP_IF_TRUE", "JUMP_IF_TRUE_OR_POP"}

PyCmp_IN == 6

PyCmp_NOT_IN == 7

PyCmp_IS == 8

PyCmp_IS_NOT == 9

NOT_PyCmp ==
  [c \in {PyCmp_IN, PyCmp_NOT_IN, PyCmp_IS, PyCmp_IS_NOT} |->
     CASE c = PyCmp_IN -> PyCmp_NOT_IN
       [] c = PyCmp_NOT_IN -> PyCmp_IN
       [] c = PyCmp_IS -> PyCmp_IS_NOT
       [] c = PyCmp_IS_NOT -> PyCmp_IS]

\* self.code[label][0]: the first instruction at the label, or IndexError when
\* no instruction is there.
TargetInstr(blocks, lbl) ==
  IF lbl.blk >= 0 /\ lbl.blk < Len(blocks) /\ lbl.off < Len(blocks[lbl.blk + 1])
  THEN [exc |-> "none", instr |-> blocks[lbl.blk + 1][lbl.off + 1]]
  ELSE [exc |-> "IndexError", instr |-> Instr("NOP", 0)]

\* self.code.create_label(label, n): a label n instructions past label
create_label(label, n) == Label(label.blk, label.off + n)

\* ------------------------------------------------------------ the optimizer

\* The optimizer's fields while a handler runs: s.blocks and s.consts are
\* self.code, s.exc the exception that left the handler ("none": it returned).
\* self.block is self.code[self.block_index - 1].
Block(s) == s.blocks[s.block_index]

SetBlock(s, b) == [s EXCEPT !.blocks[s.block_index] = b]

Raised(s, e) == [s EXCEPT !.exc = e]

SizeLimit == 20

\* check_result with the limit one higher
check_result_one_more(value) ==
  IF IsSized(value) THEN Len(value.items) <= SizeLimit + 1 ELSE TRUE

check_result(value) == IF IsSized(value) THEN Len(value.items) <= SizeLimit ELSE TRUE

\* replace_load_const storing the result over the table's last entry
replace_load_const_over_last(s, nconst, instr, result) ==
  LET const == Len(s.consts) - 1
      load_const == Instr_replace(instr, "LOAD_CONST", const)
      start == s.index - nconst - 1
      stack == IF nconst # 0
               THEN PySliceDel(s.const_stack, -nconst, Len(s.const_stack))
               ELSE s.const_stack
  IN  [s EXCEPT !.consts = IF @ = <<>> THEN <<result>> ELSE PySetItem(@, const, result),
                !.blocks[s.block_index] = PySliceAssign(@, start, s.index, <<load_const>>),
                !.index = @ - nconst,
                !.const_stack = Append(stack, result),
                !.in_consts = TRUE]

replace_load_const(s, nconst, instr, result) ==
  LET const == Len(s.consts)
      load_const == Instr_replace(instr, "LOAD_CONST", const)
      start == s.index - nconst - 1
      stack == IF nconst # 0
               THEN PySliceDel(s.const_stack, -nconst, Len(s.const_stack))
               ELSE s.const_stack
  IN  [s EXCEPT !.consts = Append(@, result),
                !.blocks[s.block_index] = PySliceAssign(@, start, s.index, <<load_const>>),
                !.index = @ - nconst,
                !.const_stack = Append(stack, result),
                !.in_consts = TRUE]

eval_LOAD_CONST(s, instr) ==
  IF ~ PyIndexOk(s.consts, instr.arg)
  THEN Raised([s EXCEPT !.in_consts = TRUE], "IndexError")
  ELSE [s EXCEPT !.const_stack = Append(@, PyItem(s.consts, instr.arg)),
                 !.in_consts = TRUE]

\* eval_UNARY_POSITIVE, eval_UNARY_NEGATIVE, eval_UNARY_INVERT
unaryop(s, instr) ==
  IF s.const_stack = <<>> THEN s
  ELSE LET r == UnaryOperator(instr.name, PyItem(s.const_stack, -1))
       IN  IF r.exc = "IndexError" THEN s
           ELSE IF r.exc # "none" THEN Raised(s, r.exc)
           ELSE IF ~ check_result(r.v) THEN s
           ELSE replace_load_const(s, 1, instr, r.v)

\* eval_UNARY_NOT that keeps the sense of the jump
eval_UNARY_NOT_same_sense(s, instr) ==
  IF ~ PyIndexOk(Block(s), s.index) THEN Raised(s, "IndexError")
  ELSE LET next_instr == PyItem(Block(s), s.index)
       IN  IF next_instr.name = "POP_JUMP_IF_FALSE"
           THEN LET new == Instr_replace_label(instr, "POP_JUMP_IF_FALSE", next_instr.lbl)
                IN  [SetBlock(s, PySliceAssign(Block(s), s.index - 1, s.index + 1, <<new>>))
                       EXCEPT !.index = @ - 1]
           ELSE s

eval_UNARY_NOT(s, instr) ==
  IF ~ PyIndexOk(Block(s), s.index) THEN Raised(s, "IndexError")
  ELSE LET next_instr == PyItem(Block(s), s.index)
       IN  IF next_instr.name = "POP_JUMP_IF_FALSE"
           THEN LET new == Instr_replace_label(instr, "POP_JUMP_IF_TRUE", next_instr.lbl)
                IN  [SetBlock(s, PySliceAssign(Block(s), s.index - 1, s.index + 1, <<new>>))
                       EXCEPT !.index = @ - 1]
           ELSE s

\* eval_RETURN_VALUE that deletes the instruction after the RETURN_VALUE alone
\* when the second one after it is a RETURN_VALUE
eval_RETURN_VALUE_deletes_one(s, instr) ==
  LET n == Len(Block(s)) - s.index
  IN  IF n < 2 THEN s
      ELSE IF ~ PyIndexOk(Block(s), s.index + 1) THEN Raised(s, "IndexError")
      ELSE IF PyItem(Block(s), s.index + 1).name = "RETURN_VALUE"
           THEN SetBlock(s, PySliceDel(Block(s), s.index, s.index + 1))
      ELSE IF ~ PyIndexOk(Block(s), s.index) THEN Raised(s, "IndexError")
      ELSE IF PyItem(Block(s), s.index).name \in {"JUMP_ABSOLUTE", "JUMP_FORWARD"}
           THEN SetBlock(s, PyDelItem(Block(s), s.index))
      ELSE s

eval_RETURN_VALUE(s, instr) ==
  LET n == Len(Block(s)) - s.index
  IN  IF n < 2 THEN s
      ELSE IF ~ PyIndexOk(Block(s), s.index + 1) THEN Raised(s, "IndexError")
      ELSE IF PyItem(Block(s), s.index + 1).name = "RETURN_VALUE"
           THEN SetBlock(s, PySliceDel(Block(s), s.index, s.index + 2))
      ELSE IF ~ PyIndexOk(Block(s), s.index) THEN Raised(s, "IndexError")
      ELSE IF PyItem(Block(s), s.index).name \in {"JUMP_ABSOLUTE", "JUMP_FORWARD"}
           THEN SetBlock(s, PyDelItem(Block(s), s.index))
      ELSE s

\* eval_BINARY_ADD ... eval_BINARY_SUBSCR
binop(s, instr) ==
  IF Len(s.const_stack) < 2 THEN s
  ELSE LET left == PyItem(s.const_stack, -2)
           right == PyItem(s.const_stack, -1)
           r == BinaryOperator(instr.name, left, right)
       IN  IF r.exc = "unmodelled" THEN Raised(s, r.exc)
           ELSE IF r.exc # "none" THEN s
           ELSE IF ~ check_result(r.v) THEN s
           ELSE replace_load_const(s, 2, instr, r.v)

\* container_type(items), for tuple and frozenset
Container(container_type, items) ==
  IF container_type = "tuple" THEN TupleV(items) ELSE FrozensetV(items)

replace_container_of_consts(s, instr, container_type) ==
  LET items == PyTail(s.const_stack, instr.arg)
      value == Container(container_type, items)
  IN  replace_load_const(s, instr.arg, instr, value)

\* build_tuple_unpack_seq with the rotations of three in the other order
build_tuple_unpack_seq_rot_swapped(s, instr) ==
  IF ~ (1 <= instr.arg /\ instr.arg <= 3) THEN s
  ELSE IF ~ PyIndexOk(Block(s), s.index) THEN Raised(s, "IndexError")
  ELSE LET next_instr == PyItem(Block(s), s.index)
       IN  IF ~ (next_instr.name = "UNPACK_SEQUENCE" /\ next_instr.arg = instr.arg) THEN s
           ELSE IF instr.arg = 1
                THEN SetBlock(s, PySliceDel(Block(s), s.index - 1, s.index + 1))
           ELSE IF instr.arg = 2
                THEN [SetBlock(s, PySliceAssign(Block(s), s.index - 1, s.index + 1,
                                                <<Instr("ROT_TWO", 0)>>))
                        EXCEPT !.index = @ - 1, !.const_stack = <<>>]
           ELSE [SetBlock(s, PySliceAssign(Block(s), s.index - 1, s.index + 1,
                                           <<Instr("ROT_TWO", 0), Instr("ROT_THREE", 0)>>))
                   EXCEPT !.index = @ - 1, !.const_stack = <<>>]

build_tuple_unpack_seq(s, instr) ==
  IF ~ (1 <= instr.arg /\ instr.arg <= 3) THEN s
  ELSE IF ~ PyIndexOk(Block(s), s.index) THEN Raised(s, "IndexError")
  ELSE LET next_instr == PyItem(Block(s), s.index)
       IN  IF ~ (next_instr.name = "UNPACK_SEQUENCE" /\ next_instr.arg = instr.arg) THEN s
           ELSE IF instr.arg = 1
                THEN SetBlock(s, PySliceDel(Block(s), s.index - 1, s.index + 1))
           ELSE IF instr.arg = 2
                THEN [SetBlock(s, PySliceAssign(Block(s), s.index - 1, s.index + 1,
                                                <<Instr("ROT_TWO", 0)>>))
                        EXCEPT !.index = @ - 1, !.const_stack = <<>>]
           ELSE [SetBlock(s, PySliceAssign(Block(s), s.index - 1, s.index + 1,
                                           <<Instr("ROT_THREE", 0), Instr("ROT_TWO", 0)>>))
                   EXCEPT !.index = @ - 1, !.const_stack = <<>>]

\* build_tuple folding before every comparison
build_tuple_any_comparison(s, instr, container_type) ==
  IF instr.arg > Len(s.const_stack) THEN [s |-> s, ret |-> FALSE]
  ELSE IF ~ PyIndexOk(Block(s), s.index) THEN [s |-> Raised(s, "IndexError"), ret |-> FALSE]
  ELSE LET next_instr == PyItem(Block(s), s.index)
       IN  IF next_instr.name # "COMPARE_OP" THEN [s |-> s, ret |-> FALSE]
           ELSE [s |-> replace_container_of_consts(s, instr, container_type), ret |-> TRUE]

\* build_tuple returns True after a fold and None otherwise: [s, ret].
build_tuple(s, instr, container_type) ==
  IF instr.arg > Len(s.const_stack) THEN [s |-> s, ret |-> FALSE]
  ELSE IF ~ PyIndexOk(Block(s), s.index) THEN [s |-> Raised(s, "IndexError"), ret |-> FALSE]
  ELSE LET next_instr == PyItem(Block(s), s.index)
       IN  IF next_instr.name # "COMPARE_OP" THEN [s |-> s, ret |-> FALSE]
           ELSE IF next_instr.arg \notin {PyCmp_IN, PyCmp_NOT_IN} THEN [s |-> s, ret |-> FALSE]
           ELSE [s |-> replace_container_of_consts(s, instr, container_type), ret |-> TRUE]

eval_BUILD_TUPLE(s, instr) ==
  IF instr.arg = 0 THEN s
  ELSE IF instr.arg <= Len(s.const_stack) THEN replace_container_of_consts(s, instr, "tuple")
  ELSE build_tuple_unpack_seq(s, instr)

eval_BUILD_LIST(s, instr) ==
  IF instr.arg = 0 THEN s
  ELSE LET r == build_tuple(s, instr, "tuple")
       IN  IF r.s.exc # "none" THEN r.s
           ELSE IF ~ r.ret THEN build_tuple_unpack_seq(s, instr)
           ELSE r.s

eval_BUILD_SET(s, instr) ==
  IF instr.arg = 0 THEN s ELSE build_tuple(s, instr, "frozenset").s

\* eval_COMPARE_OP replacing the comparison alone, the UNARY_NOT left in place
eval_COMPARE_OP_keeps_not(s, instr) ==
  IF instr.arg \notin DOMAIN NOT_PyCmp THEN s
  ELSE IF ~ PyIndexOk(Block(s), s.index) THEN s
  ELSE IF PyItem(Block(s), s.index).name # "UNARY_NOT" THEN s
  ELSE LET new == Instr_replace(instr, instr.name, NOT_PyCmp[instr.arg])
       IN  SetBlock(s, PySliceAssign(Block(s), s.index - 1, s.index, <<new>>))

eval_COMPARE_OP(s, instr) ==
  IF instr.arg \notin DOMAIN NOT_PyCmp THEN s
  ELSE IF ~ PyIndexOk(Block(s), s.index) THEN s
  ELSE IF PyItem(Block(s), s.index).name # "UNARY_NOT" THEN s
  ELSE LET new == Instr_replace(instr, instr.name, NOT_PyCmp[instr.arg])
       IN  SetBlock(s, PySliceAssign(Block(s), s.index - 1, s.index + 1, <<new>>))

\* optimize_jump_to_cond_jump chasing a chain of two unconditional jumps.
optimize_jump_to_cond_jump_two_hops(s, instr) ==
  LET t == TargetInstr(s.blocks, instr.lbl)
  IN  IF t.exc # "none" THEN Raised(s, t.exc)
      ELSE IF instr.name \in {"JUMP_FORWARD", "JUMP_ABSOLUTE"} /\ t.instr.name = "RETURN_VALUE"
           THEN SetBlock(s, PySetItem(Block(s), s.index - 1, t.instr))
      ELSE IF t.instr.name \in {"JUMP_FORWARD", "JUMP_ABSOLUTE"}
           THEN LET name == IF instr.name = "JUMP_FORWARD" THEN "JUMP_ABSOLUTE" ELSE instr.name
                    t2 == TargetInstr(s.blocks, t.instr.lbl)
                    lbl == IF t2.exc = "none" /\ t2.instr.name \in {"JUMP_FORWARD", "JUMP_ABSOLUTE"}
                           THEN t2.instr.lbl ELSE t.instr.lbl
                    new == Instr_replace_label(instr, name, lbl)
                IN  SetBlock(s, PySetItem(Block(s), s.index - 1, new))
      ELSE s

optimize_jump_to_cond_jump(s, instr) ==
  LET t == TargetInstr(s.blocks, instr.lbl)
  IN  IF t.exc # "none" THEN Raised(s, t.exc)
      ELSE IF instr.name \in {"JUMP_FORWARD", "JUMP_ABSOLUTE"} /\ t.instr.name = "RETURN_VALUE"
           THEN SetBlock(s, PySetItem(Block(s), s.index - 1, t.instr))
      ELSE IF t.instr.name \in {"JUMP_FORWARD", "JUMP_ABSOLUTE"}
           THEN LET name == IF instr.name = "JUMP_FORWARD" THEN "JUMP_ABSOLUTE" ELSE instr.name
                    new == Instr_replace_label(instr, name, t.instr.lbl)
                IN  SetBlock(s, PySetItem(Block(s), s.index - 1, new))
      ELSE s

\* jump_if_or_pop aiming the opposite-sense rewrite at the second test itself.
jump_if_or_pop_at_second_test(s, instr) ==
  LET label == instr.lbl
      t == TargetInstr(s.blocks, label)
  IN  IF t.exc # "none" THEN Raised(s, t.exc)
      ELSE IF ~ is_cond_jump(t.instr) THEN optimize_jump_to_cond_jump(s, instr)
      ELSE IF (t.instr.name \in JUMPS_ON_TRUE) = (instr.name \in JUMPS_ON_TRUE)
           THEN LET new == Instr_replace_label(instr, t.instr.name, t.instr.lbl)
                IN  [SetBlock(s, PySetItem(Block(s), s.index - 1, new)) EXCEPT !.index = @ - 1]
      ELSE LET opname == IF instr.name \in JUMPS_ON_TRUE
                         THEN "POP_JUMP_IF_TRUE" ELSE "POP_JUMP_IF_FALSE"
               new == Instr_replace_label(instr, opname, label)
           IN  [SetBlock(s, PySetItem(Block(s), s.index - 1, new)) EXCEPT !.index = @ - 1]

\* eval_JUMP_IF_FALSE_OR_POP, eval_JUMP_IF_TRUE_OR_POP
jump_if_or_pop(s, instr) ==
  LET label == instr.lbl
      t == TargetInstr(s.blocks, label)
  IN  IF t.exc # "none" THEN Raised(s, t.exc)
      ELSE IF ~ is_cond_jump(t.instr) THEN optimize_jump_to_cond_jump(s, instr)
      ELSE IF (t.instr.name \in JUMPS_ON_TRUE) = (instr.name \in JUMPS_ON_TRUE)
           THEN LET new == Instr_replace_label(instr, t.instr.name, t.instr.lbl)
                IN  [SetBlock(s, PySetItem(Block(s), s.index - 1, new)) EXCEPT !.index = @ - 1]
      ELSE LET opname == IF instr.name \in JUMPS_ON_TRUE
                         THEN "POP_JUMP_IF_TRUE" ELSE "POP_JUMP_IF_FALSE"
               new_label == create_label(label, 1)
               new == Instr_replace_label(instr, opname, new_label)
           IN  [SetBlock(s, PySetItem(Block(s), s.index - 1, new)) EXCEPT !.index = @ - 1]

\* The body of optimize_block's loop after the flag is cleared: the eval_<NAME>
\* method when there is one, else the jump rule for a jump.
Dispatch(s, instr) ==
  CASE instr.name = "LOAD_CONST" -> eval_LOAD_CONST(s, instr)
    [] instr.name \in UnaryOps -> unaryop(s, instr)
    [] instr.name = "UNARY_NOT" -> eval_UNARY_NOT(s, instr)
    [] instr.name = "RETURN_VALUE" -> eval_RETURN_VALUE(s, instr)
    [] instr.name \in BinaryOps -> binop(s, instr)
    [] instr.name = "BUILD_TUPLE" -> eval_BUILD_TUPLE(s, instr)
    [] instr.name = "BUILD_LIST" -> eval_BUILD_LIST(s, instr)
    [] instr.name = "BUILD_SET" -> eval_BUILD_SET(s, instr)
    [] instr.name = "COMPARE_OP" -> eval_COMPARE_OP(s, instr)
    [] instr.name \in {"JUMP_IF_FALSE_OR_POP", "JUMP_IF_TRUE_OR_POP"} -> jump_if_or_pop(s, instr)
    [] OTHER -> IF is_jump(instr) THEN optimize_jump_to_cond_jump(s, instr) ELSE s

\* ------------------------------------------------------- the code object

\* The encoded form of an instruction: one byte, or three with an argument.
HasArg(instr) ==
  instr.name \in {"LOAD_CONST", "LOAD_FAST", "BUILD_TUPLE", "BUILD_LIST", "BUILD_SET",
                  "UNPACK_SEQUENCE", "COMPARE_OP"} \cup CondJumps \cup UncondJumps

InstrSize(instr) == IF HasArg(instr) THEN 3 ELSE 1

RECURSIVE BlockSize(_)
BlockSize(block) == IF block = <<>> THEN 0 ELSE InstrSize(Head(block)) + BlockSize(Tail(block))

RECURSIVE BlocksSize(_)
BlocksSize(bs) == IF bs = <<>> THEN 0 ELSE BlockSize(Head(bs)) + BlocksSize(Tail(bs))

\* len(code_obj.co_code): the blocks' instructions after co.pad one-byte NOPs.
\* The NOPs lead the first block; no handler acts on a NOP and the constant
\* stack is empty there, so the scan is modelled from the first instruction
\* after them.
CodeLen(co) == co.pad + BlocksSize(co.blocks)

\* Whether co_code[codelen - 1] is the RETURN_VALUE opcode: the last instruction
\* is a RETURN_VALUE (the last byte of an instruction with an argument is the
\* argument's high byte, 0 for every argument of the model).
LastByteIsReturn(co) ==
  /\ co.blocks # <<>>
  /\ LET last == co.blocks[Len(co.blocks)]
     IN  last # <<>> /\ last[Len(last)].name = "RETURN_VALUE"

CodeLenCeiling == 32700

\* -------------------------------------------------------------- the state

VARIABLES
  MIMICK_C_IMPL,  \* the module's setting (False as shipped)
  code_obj,       \* optimize's argument: [blocks, consts, lnotab255, pad]
  blocks,         \* self.code: its blocks, once disassembled
  consts,         \* self.code.consts
  const_stack,    \* self.const_stack
  in_consts,      \* self.in_consts
  block_index,    \* self.block_index
  index,          \* self.index
  pc,             \* "start", "blocks" (_optimize's loop), "scan" (optimize_block's),
                  \* "done" (optimize returned), "raised" (an exception left it)
  exc,            \* the exception that left optimize, or "none"
  ret,            \* what optimize returned: [blocks, consts]
  h               \* the last step taken: what was dispatched, on which state, and
                  \* the parity of the turns optimize_block's loop has taken

vars ==
  <<MIMICK_C_IMPL, code_obj, blocks, consts, const_stack, in_consts, block_index,
    index, pc, exc, ret, h>>

NoRet == [blocks |-> <<>>, consts |-> <<>>]

NoStep ==
  [act |-> "none", instr |-> Instr("NOP", 0), blocks |-> <<>>, consts |-> <<>>,
   index |-> 0, const_stack |-> <<>>, entry_stack |-> <<>>, in_consts |-> FALSE,
   turn |-> 0]

\* check_bypass_optim without its test of the code's length
check_bypass_optim_any_length(mimick, co) ==
  IF ~ mimick THEN FALSE
  ELSE IF co.lnotab255 THEN TRUE
  ELSE IF ~ LastByteIsReturn(co) THEN TRUE
  ELSE FALSE

check_bypass_optim(mimick, co) ==
  IF ~ mimick THEN FALSE
  ELSE IF co.lnotab255 THEN TRUE
  ELSE IF CodeLen(co) > CodeLenCeiling THEN TRUE
  ELSE IF ~ LastByteIsReturn(co) THEN TRUE
  ELSE FALSE

\* optimize(code_obj), up to the first block: the bypass, or disassemble and
\* _optimize's first two lines.
Optimize ==
  /\ pc = "start"
  /\ IF check_bypass_optim(MIMICK_C_IMPL, code_obj)
     THEN /\ pc' = "done"
          /\ ret' = [blocks |-> code_obj.blocks, consts |-> code_obj.consts]
          /\ UNCHANGED <<blocks, consts, const_stack, block_index>>
     ELSE /\ pc' = "blocks"
          /\ blocks' = code_obj.blocks
          /\ consts' = code_obj.consts
          /\ const_stack' = <<>>
          /\ block_index' = 0
          /\ UNCHANGED ret
  /\ h' = [NoStep EXCEPT !.act = "optimize", !.turn = h.turn]
  /\ UNCHANGED <<MIMICK_C_IMPL, code_obj, in_consts, index, exc>>

\* _optimize's loop: the next block, and disassemble's first two lines.
NextBlock ==
  /\ pc = "blocks"
  /\ block_index < Len(blocks)
  /\ block_index' = block_index + 1
  /\ index' = 0
  /\ pc' = "scan"
  /\ h' = [NoStep EXCEPT !.act = "block", !.turn = h.turn]
  /\ UNCHANGED <<MIMICK_C_IMPL, code_obj, blocks, consts, const_stack, in_consts, exc, ret>>

\* The optimizer's fields, as the handlers take them.
Fields ==
  [blocks |-> blocks, consts |-> consts, const_stack |-> const_stack,
   in_consts |-> in_consts, block_index |-> block_index, index |-> index, exc |-> "none"]

InModel(s) ==
  /\ s.exc # "unmodelled"
  /\ \A b \in 1..Len(s.blocks) : Len(s.blocks[b]) <= MaxBlockLen

\* One turn of optimize_block's loop: disassemble yields the instruction at the
\* cursor and advances it, the stack is cleared unless the flag is set, the flag
\* is cleared, and the instruction is dispatched.
Step ==
  /\ pc = "scan"
  /\ index < Len(blocks[block_index])
  /\ IF ~ PyIndexOk(blocks[block_index], index)
     THEN /\ pc' = "raised"
          /\ exc' = "IndexError"
          /\ h' = [NoStep EXCEPT !.act = "step", !.turn = 1 - h.turn]
          /\ UNCHANGED <<blocks, consts, const_stack, in_consts, index>>
     ELSE LET instr == PyItem(blocks[block_index], index)
              s0 == [Fields EXCEPT !.index = index + 1,
                                   !.const_stack = IF in_consts THEN const_stack ELSE <<>>,
                                   !.in_consts = FALSE]
              s1 == Dispatch(s0, instr)
          IN  /\ InModel(s1)
              /\ blocks' = s1.blocks
              /\ consts' = s1.consts
              /\ const_stack' = s1.const_stack
              /\ in_consts' = s1.in_consts
              /\ index' = s1.index
              /\ exc' = s1.exc
              /\ pc' = IF s1.exc = "none" THEN "scan" ELSE "raised"
              /\ h' = [act |-> "step", instr |-> instr, blocks |-> blocks, consts |-> consts,
                       index |-> index + 1, const_stack |-> s0.const_stack,
                       entry_stack |-> const_stack, in_consts |-> in_consts,
                       turn |-> 1 - h.turn]
  /\ UNCHANGED <<MIMICK_C_IMPL, code_obj, block_index, ret>>

\* disassemble's loop ends: optimize_block returns to _optimize's loop.
EndBlock ==
  /\ pc = "scan"
  /\ index >= Len(blocks[block_index])
  /\ pc' = "blocks"
  /\ h' = [NoStep EXCEPT !.act = "end", !.turn = h.turn]
  /\ UNCHANGED <<MIMICK_C_IMPL, code_obj, blocks, consts, const_stack, in_consts,
                 block_index, index, exc, ret>>

\* _optimize's loop ends: optimize returns code.assemble().
Finish ==
  /\ pc = "blocks"
  /\ block_index >= Len(blocks)
  /\ pc' = "done"
  /\ ret' = [blocks |-> blocks, consts |-> consts]
  /\ h' = [NoStep EXCEPT !.act = "finish", !.turn = h.turn]
  /\ UNCHANGED <<MIMICK_C_IMPL, code_obj, blocks, consts, const_stack, in_consts,
                 block_index, index, exc>>

Next == Optimize \/ NextBlock \/ Step \/ EndBlock \/ Finish

\* ------------------------------------------------ the stack machine

\* The outcome of running a program: "return" with a value, "raise" with an
\* exception, "fault" (the run leaves the program or underflows the stack: not
\* a valid execution), "timeout" (out of fuel) or "unmodelled".
Returned(v) == [kind |-> "return", v |-> v, exc |-> "none"]

Thrown(e) == [kind |-> IF e = "unmodelled" THEN "unmodelled" ELSE "raise", v |-> IntV(0), exc |-> e]

Stopped(k) == [kind |-> k, v |-> IntV(0), exc |-> "none"]

BoolV(p) == IntV(IF p THEN 1 ELSE 0)

ListV(s) == [t |-> "list", i |-> 0, d |-> 1, items |-> s]

SetV(s) == [t |-> "set", i |-> 0, d |-> 1, items |-> CanonItems(s)]

RECURSIVE Hashable(_)
Hashable(v) ==
  /\ v.t \notin {"list", "set"}
  /\ v.t = "tuple" => \A k \in 1..Len(v.items) : Hashable(v.items[k])

RECURSIVE Reverse(_)
Reverse(s) == IF s = <<>> THEN <<>> ELSE Append(Reverse(Tail(s)), Head(s))

\* COMPARE_OP arg on a (below) and b (top of the stack)
Compare(arg, a, b) ==
  CASE arg \in {PyCmp_IN, PyCmp_NOT_IN} ->
         IF ~ IsSized(b) THEN Raise("TypeError")
         ELSE IF b.t \in {"set", "frozenset"} /\ ~ Hashable(a) /\ a.t # "set"
              THEN Raise("TypeError")
         ELSE Ok(BoolV(PyContains(b, a) = (arg = PyCmp_IN)))
    [] arg \in {PyCmp_IS, PyCmp_IS_NOT} -> Ok(BoolV((a = b) = (arg = PyCmp_IS)))
    [] arg = 2 -> Ok(BoolV(PyEq(a, b)))
    [] arg = 3 -> Ok(BoolV(~ PyEq(a, b)))
    [] arg = 0 -> IF IsNum(a) /\ IsNum(b) THEN Ok(BoolV(a.i * b.d < b.i * a.d))
                  ELSE Raise("unmodelled")
    [] OTHER -> Raise("unmodelled")

\* The instruction the run is at: from offset i of block b (counted from 1)
\* on, the first block with an instruction there; 0 when the program ends.
RECURSIVE AtBlock(_, _, _)
AtBlock(bs, b, i) ==
  IF b > Len(bs) THEN 0
  ELSE IF i < Len(bs[b]) THEN b
  ELSE AtBlock(bs, b + 1, 0)

RECURSIVE Exec(_, _, _, _, _, _, _)
Exec(bs, cs, env, b0, i0, st, fuel) ==
  LET b == AtBlock(bs, b0, i0)
      i == IF b = b0 THEN i0 ELSE 0
      n == Len(st)
  IN  IF fuel = 0 THEN Stopped("timeout")
      ELSE IF b = 0 THEN Stopped("fault")
      ELSE LET instr == bs[b][i + 1]
               name == instr.name
               Go(st2) == Exec(bs, cs, env, b, i + 1, st2, fuel - 1)
               To(l, st2) == IF l.blk < 0 \/ l.blk >= Len(bs) THEN Stopped("fault")
                             ELSE Exec(bs, cs, env, l.blk + 1, l.off, st2, fuel - 1)
               Pop(k) == SubSeq(st, 1, n - k)
               Push(r, k) == IF r.exc # "none" THEN Thrown(r.exc) ELSE Go(Append(Pop(k), r.v))
               Needs == CASE name \in {"LOAD_CONST", "LOAD_FAST", "NOP"} \cup UncondJumps -> 0
                          [] name \in BinaryOps \cup {"COMPARE_OP", "ROT_TWO"} -> 2
                          [] name = "ROT_THREE" -> 3
                          [] name \in {"BUILD_TUPLE", "BUILD_LIST", "BUILD_SET"} -> instr.arg
                          [] OTHER -> 1
           IN  IF n < Needs THEN Stopped("fault")
               ELSE CASE name = "LOAD_CONST" ->
                           IF PyIndexOk(cs, instr.arg) /\ instr.arg >= 0
                           THEN Go(Append(st, cs[instr.arg + 1])) ELSE Stopped("fault")
                      [] name = "LOAD_FAST" ->
                           IF instr.arg < Len(env)
                           THEN Go(Append(st, env[instr.arg + 1])) ELSE Stopped("fault")
                      [] name = "NOP" -> Go(st)
                      [] name = "POP_TOP" -> Go(Pop(1))
                      [] name = "ROT_TWO" -> Go(Pop(2) \o <<st[n], st[n - 1]>>)
                      [] name = "ROT_THREE" -> Go(Pop(3) \o <<st[n], st[n - 2], st[n - 1]>>)
                      [] name \in UnaryOps -> Push(UnaryOperator(name, st[n]), 1)
                      [] name = "UNARY_NOT" -> Go(Append(Pop(1), BoolV(~ Truthy(st[n]))))
                      [] name \in BinaryOps -> Push(BinaryOperator(name, st[n - 1], st[n]), 2)
                      [] name = "COMPARE_OP" -> Push(Compare(instr.arg, st[n - 1], st[n]), 2)
                      [] name = "BUILD_TUPLE" ->
                           Go(Append(Pop(instr.arg), TupleV(SubSeq(st, n - instr.arg + 1, n))))
                      [] name = "BUILD_LIST" ->
                           Go(Append(Pop(instr.arg), ListV(SubSeq(st, n - instr.arg + 1, n))))
                      [] name = "BUILD_SET" ->
                           IF \E k \in (n - instr.arg + 1)..n : ~ Hashable(st[k])
                           THEN Thrown("TypeError")
                           ELSE Go(Append(Pop(instr.arg), SetV(SubSeq(st, n - instr.arg + 1, n))))
                      [] name = "UNPACK_SEQUENCE" ->
                           IF ~ IsSized(st[n]) THEN Thrown("TypeError")
                           ELSE IF Len(st[n].items) # instr.arg THEN Thrown("ValueError")
                           ELSE Go(Pop(1) \o Reverse(st[n].items))
                      [] name = "POP_JUMP_IF_FALSE" ->
                           IF Truthy(st[n]) THEN Go(Pop(1)) ELSE To(instr.lbl, Pop(1))
                      [] name = "POP_JUMP_IF_TRUE" ->
                           IF Truthy(st[n]) THEN To(instr.lbl, Pop(1)) ELSE Go(Pop(1))
                      [] name = "JUMP_IF_FALSE_OR_POP" ->
                           IF Truthy(st[n]) THEN Go(Pop(1)) ELSE To(instr.lbl, st)
                      [] name = "JUMP_IF_TRUE_OR_POP" ->
                           IF Truthy(st[n]) THEN To(instr.lbl, st) ELSE Go(Pop(1))
                      [] name \in UncondJumps -> To(instr.lbl, st)
                      [] name = "RETURN_VALUE" -> Returned(st[n])
                      [] OTHER -> Stopped("unmodelled")

\* How many instructions a run may execute.
Fuel == 16

\* The program run from its first instruction on an empty stack, its local
\* variables holding env.
Run(prog, env) == Exec(prog.blocks, prog.consts, env, 1, 0, <<>>, Fuel)

\* ------------------------------------------------------ the input programs

LC(k) == Instr("LOAD_CONST", k)

RET == Instr("RETURN_VALUE", 0)

LOAD_FAST == Instr("LOAD_FAST", 0)

\* The k-th smallest element of a set of numbers.
Kth(S, k) == CHOOSE x \in S : Cardinality({y \in S : y < x}) = k - 1

\* body cut into blocks after the positions in cuts.
Segments(body, cuts) ==
  LET ends == cuts \cup {Len(body)}
  IN  [k \in 1..Cardinality(ends) |->
         SubSeq(body, IF k = 1 THEN 1 ELSE Kth(ends, k - 1) + 1, Kth(ends, k))]

\* The ways to cut n instructions into at most m blocks.
CutSets(n, m) == {c \in SUBSET (1..(n - 1)) : Cardinality(c) < m}

Labels(block) == {block[k].lbl : k \in {j \in 1..Len(block) : is_jump(block[j])}}

AllLabels(bs) == UNION {Labels(bs[b]) : b \in 1..Len(bs)}

\* What the disassembler makes: every label names the start of a block, and a
\* block other than the first starts where a label points.
WellFormed(bs) ==
  /\ \A l \in AllLabels(bs) : l.off = 0 /\ l.blk >= 0 /\ l.blk < Len(bs)
  /\ \A b \in 2..Len(bs) : Label(b - 1, 0) \in AllLabels(bs)

\* A code object: its instructions and constants, whether its line table has
\* an entry of 255, and how many NOPs lead its code.
Encoded(bs, cs, lnotab255, pad) ==
  [blocks |-> bs, consts |-> cs, lnotab255 |-> lnotab255, pad |-> pad]

CodeObj(bs, cs) == Encoded(bs, cs, FALSE, 0)

\* code_obj is a well-formed program of at most n instructions over the
\* alphabet, followed by end, in at most m blocks, with constants cs.
DrawEncoded(alphabet, cs, n, m, end, lnotab255, pad) ==
  \E k \in 1..n :
    \E cuts \in CutSets(k + Len(end), m) :
      \E f \in [1..k -> alphabet] :
        LET bs == Segments(SubSeq(f, 1, k) \o end, cuts)
        IN  WellFormed(bs) /\ code_obj = Encoded(bs, cs, lnotab255, pad)

Draw(alphabet, cs, n, m, end) == DrawEncoded(alphabet, cs, n, m, end, FALSE, 0)

\* Constant folding: ints, a division by zero, a tuple no unary operator takes.
FoldLen == 4

FoldInputs ==
  Draw({LC(0), LC(1), LC(2), Instr("BINARY_ADD", 0), Instr("BINARY_TRUE_DIVIDE", 0),
        Instr("UNARY_NEGATIVE", 0)},
       <<IntV(0), IntV(2), TupleV(<<IntV(1)>>)>>, FoldLen, 1, <<RET>>)

\* Folds about the size guard: a tuple a third of the limit long, times 2 and 3.
SizeLen == 4

SizeInputs ==
  Draw({LC(0), LC(1), LC(2), Instr("BINARY_MULTIPLY", 0), Instr("BINARY_ADD", 0)},
       <<TupleV([k \in 1..(SizeLimit \div 3 + 1) |-> IntV(0)]), IntV(2), IntV(3)>>,
       SizeLen, 1, <<RET>>)

\* Constants and folds on both sides of a block boundary.
CrossLen == 5

CrossInputs ==
  Draw({LOAD_FAST, Jump("POP_JUMP_IF_TRUE", Label(1, 0)), LC(0), Instr("BINARY_ADD", 0),
        Instr("UNARY_NEGATIVE", 0)},
       <<IntV(1)>>, CrossLen, 2, <<RET>>)

\* A conditional expression under an operator, -(a if x else b) and
\* (a if x else b) + c, as the compiler lays it out.
ConditionalInputs ==
  \E a \in 0..1, op \in {<<Instr("UNARY_NEGATIVE", 0)>>, <<LC(1), Instr("BINARY_ADD", 0)>>} :
    code_obj = CodeObj(<<<<LOAD_FAST, Jump("POP_JUMP_IF_FALSE", Label(1, 0)), LC(a),
                          Jump("JUMP_FORWARD", Label(2, 0))>>,
                        <<LC(1 - a)>>,
                        op \o <<RET>>>>,
                       <<IntV(1), IntV(2)>>)

\* BUILD_TUPLE 1; UNPACK_SEQUENCE 1 in front of constants.
SkipLen == 5

SkipInputs ==
  Draw({Instr("BUILD_TUPLE", 1), Instr("UNPACK_SEQUENCE", 1), LC(0), Instr("BINARY_ADD", 0)},
       <<IntV(1)>>, SkipLen, 1, <<RET>>)

\* Builds and unpacks of two and three.
UnpackLen == 3

UnpackInputs ==
  Draw({LOAD_FAST, LC(0), Instr("BUILD_TUPLE", 2), Instr("BUILD_TUPLE", 3),
        Instr("BUILD_LIST", 2), Instr("UNPACK_SEQUENCE", 2), Instr("UNPACK_SEQUENCE", 3)},
       <<IntV(1)>>, UnpackLen, 1, <<RET>>)

\* Containers in a containment test, comparisons under a not.
CompareLen == 4

CompareInputs ==
  Draw({LOAD_FAST, LC(0), Instr("BUILD_LIST", 1), Instr("BUILD_SET", 1),
        Instr("COMPARE_OP", PyCmp_IN), Instr("COMPARE_OP", PyCmp_IS_NOT),
        Instr("COMPARE_OP", 2), Instr("UNARY_NOT", 0)},
       <<IntV(1)>>, CompareLen, 1, <<RET>>)

\* Jumps to jumps, to returns, and after returns, over three blocks.
JumpLen == 3

JumpInputs ==
  Draw({LOAD_FAST, Instr("UNARY_NOT", 0), RET,
        Jump("POP_JUMP_IF_FALSE", Label(1, 0)), Jump("JUMP_IF_FALSE_OR_POP", Label(0, 0)),
        Jump("JUMP_IF_FALSE_OR_POP", Label(1, 0)), Jump("JUMP_IF_TRUE_OR_POP", Label(1, 0)),
        Jump("JUMP_IF_TRUE_OR_POP", Label(2, 0)), Jump("JUMP_ABSOLUTE", Label(2, 0)),
        Jump("JUMP_FORWARD", Label(1, 0))},
       <<IntV(1)>>, JumpLen, 3, <<RET>>)

\* A not, of a constant or of a variable, in front of a conditional jump.
NotLen == 3

NotInputs ==
  Draw({LOAD_FAST, LC(0), Instr("UNARY_NOT", 0), Jump("POP_JUMP_IF_FALSE", Label(1, 0)),
        Jump("POP_JUMP_IF_TRUE", Label(1, 0))},
       <<IntV(1)>>, NotLen, 2, <<RET>>)

\* n constants under a BUILD_TUPLE n, for n at the size limit and one past it.
WideInputs ==
  \E n \in {SizeLimit, SizeLimit + 1} :
    code_obj = CodeObj(<<[k \in 1..n |-> LC(0)] \o <<Instr("BUILD_TUPLE", n), RET>>>>,
                       <<IntV(1)>>)

\* The optimizer as __init__ leaves it, optimize about to be called.
Constructed ==
  /\ blocks = <<>>
  /\ consts = <<>>
  /\ const_stack = <<>>
  /\ in_consts = FALSE
  /\ block_index = 0
  /\ index = 0
  /\ pc = "start"
  /\ exc = "none"
  /\ ret = NoRet
  /\ h = NoStep

Init ==
  /\ MIMICK_C_IMPL = FALSE
  /\ \/ FoldInputs
     \/ SizeInputs
     \/ CrossInputs
     \/ ConditionalInputs
     \/ SkipInputs
     \/ UnpackInputs
     \/ CompareInputs
     \/ JumpInputs
     \/ WideInputs
     \/ NotInputs
  /\ Constructed

Spec == Init /\ [][Next]_vars

\* The applicability guard: short programs with and without a final
\* RETURN_VALUE, behind no NOPs or behind as many as leave four bytes under the
\* ceiling, with either kind of line table, under either setting of the module.
GuardLen == 3

GuardInputs ==
  \E lnotab255 \in BOOLEAN, pad \in {0, CodeLenCeiling - 4}, end \in {<<>>, <<RET>>} :
    DrawEncoded({LC(0), LC(1), Instr("BINARY_ADD", 0)}, <<IntV(1), IntV(2)>>,
                GuardLen, 1, end, lnotab255, pad)

InitGuard ==
  /\ MIMICK_C_IMPL \in BOOLEAN
  /\ GuardInputs
  /\ Constructed

SpecGuard == InitGuard /\ [][Next]_vars

\* Jump-or-pop instructions that target conditional jumps, themselves and
\* each other, with BUILD_TUPLE 1; UNPACK_SEQUENCE 1 among them.
ChainLen == 3

ChainInputs ==
  Draw({LOAD_FAST, Jump("JUMP_IF_FALSE_OR_POP", Label(0, 0)),
        Jump("JUMP_IF_FALSE_OR_POP", Label(1, 0)), Jump("POP_JUMP_IF_FALSE", Label(1, 0)),
        Instr("BUILD_TUPLE", 1), Instr("UNPACK_SEQUENCE", 1)},
       <<IntV(1)>>, ChainLen, 2, <<RET>>)

InitChain ==
  /\ MIMICK_C_IMPL = FALSE
  /\ ChainInputs
  /\ Constructed

\* optimize runs to its end once called: nothing but its own loops holds it.
SpecFair == InitChain /\ [][Next]_vars /\ WF_vars(Next)

\* The instructions of the blocks, in order.
RECURSIVE Flat(_)
Flat(bs) == IF bs = <<>> THEN <<>> ELSE Head(bs) \o Flat(Tail(bs))

\* How many instructions lie before the one a label names.
LabelPos(bs, l) == Len(Flat(SubSeq(bs, 1, l.blk))) + l.off

\* code.assemble() and Code.disassemble() of the result: the same instructions,
\* in the blocks their labels make, each label naming the start of its block.
Reblock(bs) ==
  LET flat == Flat(bs)
      cuts == {LabelPos(bs, l) : l \in AllLabels(bs)} \cap 1..(Len(flat) - 1)
      NewLabel(l) == Label(Cardinality({c \in cuts : c <= LabelPos(bs, l)}), 0)
      Renamed(b) == [k \in 1..Len(bs[b]) |->
                       IF is_jump(bs[b][k])
                       THEN Jump(bs[b][k].name, NewLabel(bs[b][k].lbl)) ELSE bs[b][k]]
  IN  Segments(Flat([b \in 1..Len(bs) |-> Renamed(b)]), cuts)

\* The optimizer is applied to its own output: a pass that changed a block is
\* followed by a pass of a new optimizer on the program it returned.
Repass ==
  /\ pc = "done"
  /\ ret.blocks # code_obj.blocks
  /\ Flat(ret.blocks) # <<>>
  /\ code_obj' = CodeObj(Reblock(ret.blocks), ret.consts)
  /\ blocks' = <<>>
  /\ consts' = <<>>
  /\ const_stack' = <<>>
  /\ in_consts' = FALSE
  /\ block_index' = 0
  /\ index' = 0
  /\ pc' = "start"
  /\ exc' = "none"
  /\ ret' = NoRet
  /\ h' = [NoStep EXCEPT !.act = "repass", !.turn = h.turn]
  /\ UNCHANGED MIMICK_C_IMPL

NextIter == Next \/ Repass

SpecIter == InitChain /\ [][NextIter]_vars /\ WF_vars(NextIter)

\* ------------------------------------------------------------- the claims

\* The block a turn of the loop found, and the block it left.
BlockBefore == h.blocks[block_index]

BlockAfter == blocks[block_index]

\* A turn of the loop has dispatched an instruction.
Dispatched == h.act = "step" /\ h.blocks # <<>>

\* C1: non-growth. No handler invocation leaves the current block with more
\* instructions than it had when the handler was invoked.
NonGrowth == Dispatched => Len(BlockAfter) <= Len(BlockBefore)

\* The stack the handler of the instruction at the cursor will see.
DispatchStack == IF in_consts THEN const_stack ELSE <<>>

\* C8: no cross-block constant state. When the first instruction of a block is
\* about to be dispatched, its handler sees an empty constant stack: nothing
\* pushed while an earlier block was scanned is left.
NoCrossBlockState ==
  (h.act = "block" /\ index < Len(blocks[block_index])) => DispatchStack = <<>>

\* The values a run's local variable may hold: a false one and a true one.
EnvValues == {IntV(0), IntV(2)}

\* C2: behaviour preservation. Whenever a run of the input program returns a
\* value or raises an error, the run of the program optimize returned, on the
\* same local variable, returns the same value or raises the same error.
BehaviourPreserved ==
  pc = "done" =>
    \A x \in EnvValues :
      LET r0 == Run(code_obj, <<x>>)
          r1 == Run(ret, <<x>>)
      IN  r0.kind \in {"return", "raise"} => r1 = r0

\* optimize returned its argument and never disassembled it.
ReturnedUnchanged ==
  /\ pc = "done"
  /\ h.act = "optimize"
  /\ ret = [blocks |-> code_obj.blocks, consts |-> code_obj.consts]
  /\ blocks = <<>>
  /\ consts = <<>>

\* The program is over the ceiling, or does not end in RETURN_VALUE.
OutsideGuard == CodeLen(code_obj) > CodeLenCeiling \/ ~ LastByteIsReturn(code_obj)

\* C3 as stated: bailout respected. Once optimize has acted on a program over
\* the ceiling or not ending in RETURN_VALUE, it has returned the program
\* unchanged, with no rewrite and no constant appended.
BailoutRespected == (pc # "start" /\ OutsideGuard) => ReturnedUnchanged

\* C3 amended: bailout respected when MIMICK_C_IMPL is set. With the setting on,
\* once optimize has acted on a program over the ceiling or whose last encoded
\* byte is not the RETURN_VALUE opcode, it has returned the program unchanged,
\* with no rewrite and no constant appended.
BailoutRespectedWhenMimicking ==
  (MIMICK_C_IMPL /\ pc # "start" /\ OutsideGuard) => ReturnedUnchanged

\* optimize bypassed a program ending in RETURN_VALUE for its length alone.
BypassedForLength ==
  /\ MIMICK_C_IMPL
  /\ pc = "done"
  /\ h.act = "optimize"
  /\ CodeLen(code_obj) > CodeLenCeiling
  /\ LastByteIsReturn(code_obj)
  /\ ~ code_obj.lnotab255

\* The size metric of a value: its element count, 1 for a scalar.
SizeMetric(v) == IF IsSized(v) THEN Len(v.items) ELSE 1

\* The constants appended since optimize was called.
Appended == {consts[k] : k \in (Len(code_obj.consts) + 1)..Len(consts)}

\* The constants appended by the last turn of the loop.
AppendedByTurn == {consts[k] : k \in (Len(h.consts) + 1)..Len(consts)}

\* The turn left the block, the constants table, the cursor and the constant
\* stack as the handler found them.
Untouched ==
  /\ blocks = h.blocks
  /\ consts = h.consts
  /\ index = h.index
  /\ const_stack = h.const_stack

\* What the host operation of the dispatched unary or binary instruction makes
\* of the constants on top of the stack.
HostResult ==
  IF h.instr.name \in UnaryOps
  THEN UnaryOperator(h.instr.name, PyItem(h.const_stack, -1))
  ELSE BinaryOperator(h.instr.name, PyItem(h.const_stack, -2), PyItem(h.const_stack, -1))

\* A unary or binary instruction was dispatched with its operands on the stack.
FoldAttempted ==
  /\ Dispatched
  /\ \/ h.instr.name \in UnaryOps /\ Len(h.const_stack) >= 1
     \/ h.instr.name \in BinaryOps /\ Len(h.const_stack) >= 2

\* C4 as stated: result-size guard. No constant appended since optimize was
\* called, by a unary, binary or container-build fold, has a size metric over 20.
ResultSizeGuard == \A v \in Appended : SizeMetric(v) <= SizeLimit

\* C4 amended: result-size guard of the unary and binary folds. No constant a
\* unary or binary fold appends has a size metric over 20, and a unary or binary
\* fold whose result would exceed 20 is abandoned, everything left untouched; a
\* container-build fold is not guarded.
OperatorResultSizeGuard ==
  FoldAttempted =>
    /\ \A v \in AppendedByTurn : SizeMetric(v) <= SizeLimit
    /\ (HostResult.exc = "none" /\ SizeMetric(HostResult.v) > SizeLimit) =>
         pc = "scan" /\ Untouched

\* A binary fold was abandoned for the size of its result alone.
FoldAbandonedForSize ==
  /\ FoldAttempted
  /\ h.instr.name \in BinaryOps
  /\ HostResult.exc = "none"
  /\ SizeMetric(HostResult.v) = SizeLimit + 1
  /\ pc = "scan"
  /\ Untouched

\* C5: fold failure is atomic and local. When the host operation of a unary or
\* binary fold raises, the handler returns normally, the block, the cursor, the
\* constants table and the constant stack are as they were, and the scan goes on.
FoldFailureAtomic ==
  (FoldAttempted /\ HostResult.exc \notin {"none", "unmodelled"}) =>
    pc = "scan" /\ exc = "none" /\ Untouched

\* The dispatched instruction is the last of its block, and its handler looks
\* at the instruction after it.
LooksAheadAtBlockEnd ==
  /\ Dispatched
  /\ h.index = Len(BlockBefore)
  /\ \/ h.instr.name \in {"UNARY_NOT", "RETURN_VALUE", "COMPARE_OP"}
     \/ h.instr.name = "BUILD_TUPLE" /\ h.instr.arg > Len(h.const_stack)
     \/ h.instr.name \in {"BUILD_LIST", "BUILD_SET"} /\ h.instr.arg > 0

\* C6: out-of-range lookahead is "pattern does not apply". A handler that looks
\* ahead from the last instruction of a block completes without an error and
\* leaves the block unchanged, and the scan goes on to its end.
LookaheadOutOfRange ==
  LooksAheadAtBlockEnd => pc = "scan" /\ exc = "none" /\ blocks = h.blocks

\* The dispatched instruction is a binary operator after LOAD_CONST a;
\* LOAD_CONST b in its block, and op(a, b) succeeds and passes the size guard.
ConstantOperands ==
  /\ Dispatched
  /\ h.instr.name \in BinaryOps
  /\ h.index >= 3
  /\ BlockBefore[h.index - 2].name = "LOAD_CONST"
  /\ BlockBefore[h.index - 1].name = "LOAD_CONST"
  /\ PyIndexOk(h.consts, BlockBefore[h.index - 2].arg)
  /\ PyIndexOk(h.consts, BlockBefore[h.index - 1].arg)

OperandsResult ==
  BinaryOperator(h.instr.name, PyItem(h.consts, BlockBefore[h.index - 2].arg),
                 PyItem(h.consts, BlockBefore[h.index - 1].arg))

\* C10: binary constant fold result. LOAD_CONST a; LOAD_CONST b; op, where
\* op(a, b) succeeds and passes the size guard, is replaced by one LOAD_CONST of
\* a new constant equal to op(a, b); the cursor is right after it, the operands
\* are off the constant stack, op(a, b) is its top and the flag is set.
BinaryFoldResult ==
  (ConstantOperands /\ OperandsResult.exc = "none"
     /\ SizeMetric(OperandsResult.v) <= SizeLimit) =>
    /\ pc = "scan"
    /\ BlockAfter = SubSeq(BlockBefore, 1, h.index - 3) \o <<LC(Len(h.consts))>>
                      \o SubSeq(BlockBefore, h.index + 1, Len(BlockBefore))
    /\ consts = Append(h.consts, OperandsResult.v)
    /\ index = h.index - 2
    /\ Len(h.const_stack) >= 2
    /\ const_stack = Append(SubSeq(h.const_stack, 1, Len(h.const_stack) - 2), OperandsResult.v)
    /\ in_consts

\* optimize has finished: it returned, or an exception left it.
Finished == pc \in {"done", "raised"}

\* C7: termination. The scan of every block finishes and optimize finishes,
\* jump-or-pop instructions that target conditional jumps in a chain or a cycle,
\* or themselves, included.
Termination == <>Finished

\* A pass has returned and changed no block.
Converged == pc = "done" /\ ret.blocks = code_obj.blocks

\* C9: convergence under iteration. Once optimize has returned, applying it to
\* its own output again and again reaches a pass that changes no block (or one
\* that an exception ends).
ConvergenceUnderIteration == (pc = "done") ~> (Converged \/ pc = "raised")

\* C11: constant-stack correspondence. When the instruction at position i of
\* the block is dispatched with k values on the constant stack, k <= i and the
\* k instructions before it are LOAD_CONST of those k values, in order.
StackCorrespondence ==
  Dispatched =>
    LET k == Len(h.const_stack)
        i == h.index - 1
    IN  /\ k <= i
        /\ \A j \in 1..k :
             /\ BlockBefore[i - k + j].name = "LOAD_CONST"
             /\ PyIndexOk(h.consts, BlockBefore[i - k + j].arg)
             /\ PyItem(h.consts, BlockBefore[i - k + j].arg) = h.const_stack[j]

\* How many leading, and how many trailing, instructions two blocks share.
CommonPrefix(a, b) ==
  Max(0, CHOOSE n \in 0..Min(Len(a), Len(b)) :
           /\ SubSeq(a, 1, n) = SubSeq(b, 1, n)
           /\ n < Min(Len(a), Len(b)) => a[n + 1] # b[n + 1])

CommonSuffix(a, b) == CommonPrefix(Reverse(a), Reverse(b))

\* The instructions the handler had not yet reached and left in the block: the
\* rewrite is what lies between the shared start and the shared end of the
\* block before and after it.
LeftUnread ==
  LET p == CommonPrefix(BlockBefore, BlockAfter)
      c == Min(CommonSuffix(BlockBefore, BlockAfter),
               Min(Len(BlockBefore), Len(BlockAfter)) - p)
  IN  Min(c, Len(BlockBefore) - h.index)

\* C12: no instruction is skipped after a splice. After a handler has spliced
\* or deleted instructions, every instruction it had not yet reached and left
\* in the block is at or after the cursor, so the scan will read it.
NoInstructionSkipped ==
  (Dispatched /\ pc = "scan") => Len(BlockAfter) - index >= LeftUnread

\* The block before with the dispatched instruction and the one after it
\* replaced by the instructions r.
PairReplacedBy(r) ==
  SubSeq(BlockBefore, 1, h.index - 1) \o r \o SubSeq(BlockBefore, h.index + 2, Len(BlockBefore))

\* What BUILD_TUPLE n; UNPACK_SEQUENCE n becomes.
Rotations(n) ==
  CASE n = 1 -> <<>>
    [] n = 2 -> <<Instr("ROT_TWO", 0)>>
    [] n = 3 -> <<Instr("ROT_THREE", 0), Instr("ROT_TWO", 0)>>

\* BUILD_TUPLE n, 1 <= n <= 3, was dispatched in front of an UNPACK_SEQUENCE.
TupleBeforeUnpack ==
  /\ Dispatched
  /\ h.instr.name = "BUILD_TUPLE"
  /\ h.instr.arg \in 1..3
  /\ h.index >= 1
  /\ h.index < Len(BlockBefore)
  /\ BlockBefore[h.index + 1].name = "UNPACK_SEQUENCE"

\* The pair is rewritten when the arities agree, and left when they differ.
PairSimplified ==
  IF BlockBefore[h.index + 1].arg = h.instr.arg
  THEN pc = "scan" /\ BlockAfter = PairReplacedBy(Rotations(h.instr.arg)) /\ const_stack = <<>>
  ELSE pc = "scan" /\ BlockAfter[h.index + 1] = BlockBefore[h.index + 1]
                   /\ Len(BlockAfter) <= Len(BlockBefore)

\* C13 as stated: tuple-build + unpack simplification. BUILD_TUPLE n;
\* UNPACK_SEQUENCE n with 1 <= n <= 3 becomes nothing, ROT_TWO, or ROT_THREE;
\* ROT_TWO, however many constants are tracked, and the constant stack is empty
\* afterwards; with different arities the pair is not rewritten.
TupleUnpackSimplified == TupleBeforeUnpack => PairSimplified

\* C13 amended: the same, when fewer than n constants are tracked. (With n or
\* more tracked, BUILD_TUPLE n is folded into a constant and the
\* UNPACK_SEQUENCE stays.)
TupleUnpackSimplifiedUntracked ==
  (TupleBeforeUnpack /\ Len(h.const_stack) < h.instr.arg) =>
    /\ PairSimplified
    /\ BlockBefore[h.index + 1].arg # h.instr.arg => BlockAfter = BlockBefore

\* With n or more constants tracked BUILD_TUPLE n is folded, unpack or not.
TupleFoldedBeforeUnpack ==
  (TupleBeforeUnpack /\ Len(h.const_stack) >= h.instr.arg) =>
    /\ Len(consts) = Len(h.consts) + 1
    /\ consts[Len(consts)] = TupleV(PyTail(h.const_stack, h.instr.arg))

\* C13 amended, in full: the simplification when fewer than n constants are
\* tracked, the fold of BUILD_TUPLE n when n or more are.
TupleUnpackOrFold == TupleUnpackSimplifiedUntracked /\ TupleFoldedBeforeUnpack

\* BUILD_TUPLE 3; UNPACK_SEQUENCE 3 after a tracked constant became ROT_THREE;
\* ROT_TWO.
UnpackOfThreeRewritten ==
  /\ TupleBeforeUnpack
  /\ h.instr.arg = 3
  /\ Len(h.const_stack) = 1
  /\ BlockBefore[h.index + 1].arg = 3
  /\ BlockAfter = PairReplacedBy(Rotations(3))

\* UNARY_NOT was dispatched in front of a POP_JUMP_IF_FALSE.
NotBeforeJump ==
  /\ Dispatched
  /\ h.instr.name = "UNARY_NOT"
  /\ h.index >= 1
  /\ h.index < Len(BlockBefore)
  /\ BlockBefore[h.index + 1].name = "POP_JUMP_IF_FALSE"

\* The operand of the dispatched instruction is a tracked constant.
OperandTracked ==
  /\ h.const_stack # <<>>
  /\ h.index >= 2
  /\ BlockBefore[h.index - 1].name = "LOAD_CONST"

\* The two instructions became POP_JUMP_IF_TRUE to the same target, which the
\* scan reads next; no constant was made.
NotFused ==
  /\ pc = "scan"
  /\ BlockAfter = PairReplacedBy(<<Jump("POP_JUMP_IF_TRUE", BlockBefore[h.index + 1].lbl)>>)
  /\ index = h.index - 1
  /\ consts = h.consts

\* C14 as stated: logical-not fusion and its exception. UNARY_NOT;
\* POP_JUMP_IF_FALSE L becomes POP_JUMP_IF_TRUE L, except after a LOAD_CONST
\* whose value is tracked, where the three instructions are left unchanged.
NotFusionExceptConstant ==
  NotBeforeJump => IF OperandTracked THEN pc = "scan" /\ BlockAfter = BlockBefore ELSE NotFused

\* C14 amended: logical-not fusion. UNARY_NOT; POP_JUMP_IF_FALSE L becomes
\* POP_JUMP_IF_TRUE L whether or not the operand is a tracked constant; the
\* not of a constant is not folded.
NotFusion == NotBeforeJump => NotFused

\* The not of a tracked constant was fused with the jump after it.
NotOfConstantFused == NotBeforeJump /\ OperandTracked /\ NotFused

\* The block before without the k instructions that follow the dispatched one.
FollowersDeleted(k) ==
  SubSeq(BlockBefore, 1, h.index) \o SubSeq(BlockBefore, h.index + k + 1, Len(BlockBefore))

\* RETURN_VALUE was dispatched with an instruction after it in its block.
ReturnBeforeInstr ==
  /\ Dispatched
  /\ h.instr.name = "RETURN_VALUE"
  /\ h.index >= 1
  /\ h.index < Len(BlockBefore)

DispatchedPos == PyPos(BlockBefore, h.index - 1)

\* The first instruction at the dispatched jump's target.
JumpTarget == TargetInstr(h.blocks, h.instr.lbl)

\* The block before with the dispatched instruction replaced by r.
DispatchedReplacedBy(r) == [BlockBefore EXCEPT ![DispatchedPos] = r]

JumpOrPops == {"JUMP_IF_FALSE_OR_POP", "JUMP_IF_TRUE_OR_POP"}

\* A jump-or-pop was dispatched whose target block has a first instruction.
JumpOrPopDispatched ==
  /\ Dispatched
  /\ h.instr.name \in JumpOrPops
  /\ JumpTarget.exc = "none"

\* What the generic jump-target chaining rule makes of the jump x whose
\* target's first instruction is y.
ChainedOnce(x, y) ==
  IF x.name \in UncondJumps /\ y.name = "RETURN_VALUE" THEN y
  ELSE IF y.name \in UncondJumps
       THEN Jump(IF x.name = "JUMP_FORWARD" THEN "JUMP_ABSOLUTE" ELSE x.name, y.lbl)
  ELSE x

\* C16: conditional jump-or-pop chaining preserves polarity and target. For a
\* jump-or-pop x whose target's first instruction is a conditional jump y with
\* target z: when x and y fire on the same truth value, x is retargeted to z
\* and keeps its truth value; when they fire on opposite values, x becomes the
\* plain POP_JUMP_IF_* of x's own polarity aimed at the label one past y; when
\* the target is no conditional jump, the generic chaining rule is applied.
JumpOrPopChaining ==
  JumpOrPopDispatched =>
    LET x == h.instr
        y == JumpTarget.instr
        new == BlockAfter[DispatchedPos]
    IN  /\ pc = "scan"
        /\ consts = h.consts
        /\ BlockAfter = DispatchedReplacedBy(new)
        /\ IF ~ is_cond_jump(y) THEN new = ChainedOnce(x, y)
           ELSE IF (y.name \in JUMPS_ON_TRUE) = (x.name \in JUMPS_ON_TRUE)
                THEN /\ is_cond_jump(new)
                     /\ new.lbl = y.lbl
                     /\ (new.name \in JUMPS_ON_TRUE) = (x.name \in JUMPS_ON_TRUE)
           ELSE new = Jump(IF x.name \in JUMPS_ON_TRUE
                           THEN "POP_JUMP_IF_TRUE" ELSE "POP_JUMP_IF_FALSE",
                           Label(x.lbl.blk, x.lbl.off + 1))

\* A jump-or-pop aimed at a test of the opposite sense became a plain
\* conditional jump past that test.
JumpOrPopPastOppositeTest ==
  /\ JumpOrPopDispatched
  /\ is_cond_jump(JumpTarget.instr)
  /\ (JumpTarget.instr.name \in JUMPS_ON_TRUE) # (h.instr.name \in JUMPS_ON_TRUE)
  /\ BlockAfter[DispatchedPos].name \in {"POP_JUMP_IF_TRUE", "POP_JUMP_IF_FALSE"}
  /\ BlockAfter[DispatchedPos].lbl = Label(h.instr.lbl.blk, h.instr.lbl.off + 1)


\* A jump was dispatched whose target block has a first instruction.
JumpDispatched ==
  /\ Dispatched
  /\ is_jump(h.instr)
  /\ JumpTarget.exc = "none"

\* The dispatched jump is one that jump_if_or_pop rewrites: a jump-or-pop
\* aimed at a conditional jump.
RewrittenByJumpIfOrPop ==
  h.instr.name \in JumpOrPops /\ is_cond_jump(JumpTarget.instr)

\* The dispatched jump was given another target by its handler.
Retargeted ==
  /\ JumpDispatched
  /\ pc = "scan"
  /\ is_jump(BlockAfter[DispatchedPos])
  /\ BlockAfter[DispatchedPos].lbl # h.instr.lbl

\* The generic jump-target chaining rule on every dispatched jump.
ChainedByGenericRule ==
  (JumpDispatched /\ ~ RewrittenByJumpIfOrPop) =>
    /\ pc = "scan"
    /\ consts = h.consts
    /\ BlockAfter = DispatchedReplacedBy(ChainedOnce(h.instr, JumpTarget.instr))

\* This step retargets the jump that the step before it retargeted.
RetargetedAgain ==
  /\ Retargeted
  /\ Retargeted'
  /\ block_index' = block_index
  /\ h'.index = h.index

\* C17 as stated: jump-target chaining is one hop. An unconditional jump to a
\* RETURN_VALUE becomes that RETURN_VALUE and a conditional one stays; a jump
\* to an unconditional jump is retargeted to that jump's target; and no jump,
\* jump-or-pop included, is retargeted twice during one pass.
JumpChainingOneHop == [][ChainedByGenericRule' /\ ~ RetargetedAgain]_vars

\* C17 amended: jump-target chaining. The generic rule rewrites the jump and
\* leaves the cursor after it, so the jump is not read again in the pass; a
\* jump-or-pop aimed at a conditional jump is rewritten by jump_if_or_pop,
\* which puts the cursor back on it, so it is dispatched again.
JumpChaining ==
  JumpDispatched =>
    IF RewrittenByJumpIfOrPop THEN pc = "scan" /\ index = h.index - 1
    ELSE ChainedByGenericRule /\ index = h.index

\* An unconditional jump aimed at a chain of two unconditional jumps was
\* retargeted to the second of them.
ChainOfJumpsFollowedOnce ==
  /\ JumpDispatched
  /\ h.instr.name \in UncondJumps
  /\ JumpTarget.instr.name \in UncondJumps
  /\ TargetInstr(h.blocks, JumpTarget.instr.lbl).exc = "none"
  /\ TargetInstr(h.blocks, JumpTarget.instr.lbl).instr.name \in UncondJumps
  /\ TargetInstr(h.blocks, JumpTarget.instr.lbl).instr.lbl # JumpTarget.instr.lbl
  /\ BlockAfter[DispatchedPos] = Jump("JUMP_ABSOLUTE", JumpTarget.instr.lbl)
  /\ index = h.index

\* BUILD_LIST n or BUILD_SET n, n >= 1, was dispatched.
ListOrSetBuildDispatched ==
  /\ Dispatched
  /\ h.instr.name \in {"BUILD_LIST", "BUILD_SET"}
  /\ h.instr.arg >= 1

\* At least n constants are tracked and the instruction right after the build
\* is COMPARE_OP with in or not in.
InContainment ==
  /\ h.instr.arg <= Len(h.const_stack)
  /\ DispatchedPos < Len(BlockBefore)
  /\ BlockBefore[DispatchedPos + 1].name = "COMPARE_OP"
  /\ BlockBefore[DispatchedPos + 1].arg \in {PyCmp_IN, PyCmp_NOT_IN}

\* The immutable container of the top n tracked constants in push order.
FoldedContainer ==
  Container(IF h.instr.name = "BUILD_LIST" THEN "tuple" ELSE "frozenset",
            SubSeq(h.const_stack, Len(h.const_stack) - h.instr.arg + 1, Len(h.const_stack)))

CompareBeforeNot ==
  /\ Dispatched
  /\ h.instr.name = "COMPARE_OP"
  /\ DispatchedPos < Len(BlockBefore)
  /\ BlockBefore[DispatchedPos + 1].name = "UNARY_NOT"

\* in <-> not in, is <-> is not
Inverted(c) ==
  CASE c = PyCmp_IN -> PyCmp_NOT_IN
    [] c = PyCmp_NOT_IN -> PyCmp_IN
    [] c = PyCmp_IS -> PyCmp_IS_NOT
    [] c = PyCmp_IS_NOT -> PyCmp_IS

\* C19: comparison/negation fusion. COMPARE_OP in, not in, is or is not
\* followed by UNARY_NOT is replaced by the one COMPARE_OP of the inverted
\* comparison, the cursor then on the instruction that followed UNARY_NOT; a
\* COMPARE_OP of another comparison followed by UNARY_NOT is left unchanged;
\* inverting twice gives the original comparison.
ComparisonNegationFusion ==
  CompareBeforeNot =>
    /\ pc = "scan"
    /\ consts = h.consts
    /\ index = h.index
    /\ IF h.instr.arg \in {PyCmp_IN, PyCmp_NOT_IN, PyCmp_IS, PyCmp_IS_NOT}
       THEN /\ BlockAfter = SubSeq(BlockBefore, 1, DispatchedPos - 1)
                              \o <<Instr("COMPARE_OP", Inverted(h.instr.arg))>>
                              \o SubSeq(BlockBefore, DispatchedPos + 2, Len(BlockBefore))
            /\ DispatchedPos + 2 <= Len(BlockBefore) =>
                 BlockAfter[index + 1] = BlockBefore[DispatchedPos + 2]
            /\ NOT_PyCmp[NOT_PyCmp[h.instr.arg]] = h.instr.arg
       ELSE BlockAfter = BlockBefore

\* not (a is not b) became a is b.
IsNotNegated ==
  /\ CompareBeforeNot
  /\ h.instr.arg = PyCmp_IS_NOT
  /\ BlockAfter[DispatchedPos] = Instr("COMPARE_OP", PyCmp_IS)
  /\ Len(BlockAfter) = Len(BlockBefore) - 1
  /\ index = DispatchedPos

\* a is the beginning of b: b keeps every entry of a at its index.
StartsWith(b, a) == Len(a) <= Len(b) /\ SubSeq(b, 1, Len(a)) = a

\* The places of the block after the turn that load the constant of index c.
LoadsOf(c) == {k \in 1..Len(BlockAfter) : BlockAfter[k] = LC(c)}

\* The instructions whose handlers fold constants.
FoldingInstrs == UnaryOps \cup BinaryOps \cup {"BUILD_TUPLE", "BUILD_LIST", "BUILD_SET"}

\* C20: the constants table is append-only. During a pass no entry is removed,
\* reordered or overwritten: the table begins with the entries it had when
\* optimize was called and, after every turn, with those it had before the
\* turn; a turn appends at most one entry, exactly when its fold puts in the
\* block the one LOAD_CONST of the new last index, and a handler that does not
\* fold leaves the table unchanged; the table returned is the table so grown.
ConstsAppendOnly ==
  /\ pc \in {"blocks", "scan", "raised"} => StartsWith(consts, code_obj.consts)
  /\ pc = "done" => StartsWith(ret.consts, code_obj.consts)
  /\ h.act = "finish" => ret.consts = consts
  /\ Dispatched =>
       /\ StartsWith(consts, h.consts)
       /\ Len(consts) <= Len(h.consts) + 1
       /\ IF Len(consts) = Len(h.consts) + 1
          THEN /\ h.instr.name \in FoldingInstrs
               /\ Cardinality(LoadsOf(Len(h.consts))) = 1
          ELSE LoadsOf(Len(h.consts)) = {}

\* A fold appended one entry, loaded by the new LOAD_CONST under the cursor,
\* while a LOAD_CONST of an older entry stays in the block.
FoldAppendedOneEntry ==
  /\ Dispatched
  /\ pc = "scan"
  /\ Len(h.consts) >= 1
  /\ consts = Append(h.consts, consts[Len(consts)])
  /\ index >= 1
  /\ BlockAfter[index] = LC(Len(h.consts))
  /\ \E k \in 1..Len(BlockAfter) :
       /\ BlockAfter[k].name = "LOAD_CONST"
       /\ BlockAfter[k].arg < Len(h.consts)
       /\ BlockBefore[k] = BlockAfter[k]

=============================================================================
